---- MODULE Spec2Model ----
(***************************************************************************)
(* Model of the two HTTP services of the repository:                       *)
(*   - the session-control server (src/src/server.ts): the browserSessions *)
(*     map, the BrowserSession objects, one request handler per route and  *)
(*     the setInterval cleanup sweep;                                      *)
(*   - the Open Graph service (src/unnamed/part_000, part_001): getBrowser,*)
(*     fetchOG and the /api/og route.                                      *)
(* Every await of the source is a step boundary: the code between two      *)
(* awaits runs atomically on the single JavaScript thread, and the other   *)
(* handlers and timers interleave at the awaits.  The engine (puppeteer)   *)
(* is the environment: each awaited engine call completes or throws.       *)
(***************************************************************************)
EXTENDS Integers, Sequences, FiniteSets

\* ---------------------------------------------------------------- bounds
MaxSessions == 2
MaxReqs == 2
MaxTicks == 2
CloseCallsCap == 2
\* MaxSessions: identifiers uuidv4 hands out in a run; MaxReqs: session-control
\* requests in flight at once; MaxTicks: ticks after which the clock stops;
\* CloseCallsCap: browser.close() invocations are counted up to here.
TickMs == 1800000
\* TickMs: the model's clock advances in steps of this many milliseconds
\* (30 minutes, so that an age equal to maxInactiveTime occurs).

MaxFetches == 2
MaxLaunches == 2
MaxTags == 3
\* MaxFetches: /api/og requests in a run; MaxLaunches: puppeteer.launch calls
\* getBrowser makes in a run; MaxTags: elements with a content the extractor
\* can find in a page.

\* ------------------------------------------------------ program constants
maxInactiveTime == 30 * 60 * 1000
DataUriPrefix == <<"data:image/png;base64,">>

Ids == 1..MaxSessions
Slots == 1..MaxReqs
NoId == 0
FetchIds == 1..MaxFetches
LaunchIds == 1..MaxLaunches

BodyKinds == {"navigate", "click", "type", "scroll", "execute"}
\* what the request body holds in the field the route reads
Bodies == {"missing", "empty", "string", "number"}
\* what a successful page.screenshot() hands back (base64 text)
Shots == {<<"iVBORw0KGgo">>}

VARIABLES
    clock,            \* what new Date() returns, in ms
    nextId,           \* the next identifier uuidv4 returns
    browserSessions,  \* keys of the Map
    inserted,         \* every key ever set, in insertion order
    sessions,         \* the BrowserSession objects, by identifier
    req,              \* the request handlers suspended at an await
    resp,             \* the response the running step has just written
    sweep,            \* the setInterval callback
    closedOk,         \* history: identifiers whose DELETE answered 200
    shutdown          \* the gracefulShutdown call of a SIGTERM or SIGINT

\* the Open Graph service (a separate process with its own state)
VARIABLES
    browserPromise,   \* 0 for null, else the number of the launch it holds
    launches,         \* each puppeteer.launch of getBrowser and its browser
    fetch,            \* the /api/og requests and their fetchOG calls
    openContexts,     \* the browsing contexts open in the engine
    nextCtx           \* the next context the engine creates

\* the pure functions of the Open Graph service, each with its arguments
VARIABLES
    html,             \* fetchOG: what cheerio finds in the page's markup
    url,              \* fetchOG: the URL that was fetched
    og,               \* fetchOG: the metadata object it returns
    baseUrl,          \* resolveUrl: first argument
    relativeUrl,      \* resolveUrl: second argument
    resolved          \* resolveUrl: the value it returns

svars == <<clock, nextId, browserSessions, inserted, sessions, req, resp, sweep, closedOk,
          shutdown>>
ogvars == <<browserPromise, launches, fetch, openContexts, nextCtx>>
pvars == <<html, url, og, baseUrl, relativeUrl, resolved>>
vars == <<svars, ogvars, pvars>>

\* ------------------------------------------------------------- helpers
Min(S) == CHOOSE x \in S : \A y \in S : x <= y

Range(f) == {f[i] : i \in DOMAIN f}

NoSession ==
    [createdAt |-> 0, lastActivity |-> 0, browser |-> "none", page |-> "none",
     viewport |-> FALSE, closeCalls |-> 0]

\* fresh is history: the session's lastActivity is not earlier than the
\* moment the handler of this slot started
IdleReq == [op |-> "none", id |-> NoId, pc |-> "idle", valid |-> TRUE, fresh |-> TRUE]

NoResp ==
    [op |-> "none", id |-> NoId, status |-> 0, valid |-> TRUE,
     sessionId |-> NoId, image |-> <<>>]

IdleFetch ==
    [target |-> "none", pc |-> "idle", b |-> 0, ctx |-> 0, result |-> "none",
     status |-> 0, keys |-> {}, success |-> "absent"]

IdleSweep == [pc |-> "idle", now |-> 0, pos |-> 0]

\* called is history: the sessions gracefulShutdown has called close() on
NoShutdown == [pc |-> "idle", pos |-> 0, called |-> {}]

\* the five body-carrying interaction routes share one handler shape: after
\* validation and lookup each awaits one page call and then getPageInfo
HandlerOf(kind) == IF kind \in BodyKinds THEN "interact" ELSE kind

\* res.status(code).json({error}) ; return  -- the handler of slot r is over;
\* valid tells whether the request came with the body the route asks for
Respond(r, op, id, code, valid) ==
    /\ resp' = [NoResp EXCEPT !.op = op, !.id = id, !.status = code,
                              !.valid = valid]
    /\ req' = [req EXCEPT ![r] = IdleReq]

\* the handler of slot r suspends at an await
Await(r, op, id, pc) ==
    /\ req' = [req EXCEPT ![r] = [op |-> op, id |-> id, pc |-> pc, valid |-> @.valid,
                                  fresh |-> @.fresh]]
    /\ resp' = NoResp

\* this.lastActivity = new Date() on session id, seen from the handlers in
\* flight on it: each of them started no later than now
Refreshed(rq, id) ==
    [q \in DOMAIN rq |-> IF rq[q].id = id THEN [rq[q] EXCEPT !.fresh = TRUE] ELSE rq[q]]

\* what the request came with: req.body holds the field the route reads, as
\* a non-empty string for url, text and script, as numbers for x, y and deltaY
BodyOk(kind, body) == body = (IF kind \in {"click", "scroll"} THEN "number" ELSE "string")

\* a validation that lets every body through
ValidBody_Any(kind, body) == TRUE

\* the validation of the body field each route reads
ValidBody(kind, body) ==
    CASE kind \in {"navigate", "type", "execute"} -> body = "string"
      [] kind \in {"click", "scroll"} -> body = "number"
      [] OTHER -> TRUE

\* a lookup that never misses (the 404 test left out)
Lookup_Any(id) == TRUE

\* browserSessions.get(sessionId) finds an entry
Lookup(id) == id \in browserSessions

\* the activity stamp taken one clock step in the past
Touched_Backdated(s) == [s EXCEPT !.lastActivity = clock - TickMs]

\* this.lastActivity = new Date()
Touched(s) == [s EXCEPT !.lastActivity = clock]

\* the engine can still answer a call on the page
PageCanAnswer(id) == sessions[id].browser \in {"live", "closing"}

\* BrowserSession.close up to its await: this.browser.close() is invoked
CloseCalled(s) ==
    IF s.browser = "none" THEN s
    ELSE [s EXCEPT !.closeCalls = IF @ < CloseCallsCap THEN @ + 1 ELSE @,
                   !.browser = IF @ = "live" THEN "closing" ELSE @]

\* a delete that empties the Map
StoreDelete_All(S, id) == {}

\* a delete that leaves the entry in the Map
StoreDelete_Keep(S, id) == S

\* browserSessions.delete(sessionId)
StoreDelete(S, id) == S \ {id}

\* a snapshot whose screenshot field was never filled in
PageInfo_NoShot(id, shot) == [sessionId |-> id, screenshot |-> <<>>]

\* the snapshot getPageInfo returns
PageInfo(id, shot) == [sessionId |-> id, screenshot |-> DataUriPrefix \o shot]

\* ------------------------------------------------------------------ Init
InitOG ==
    /\ browserPromise = 0
    /\ launches = [n \in LaunchIds |-> "unused"]
    /\ fetch = [f \in FetchIds |-> IdleFetch]
    /\ openContexts = {}
    /\ nextCtx = 1

\* JavaScript strings are sequences of characters; null and undefined are
\* one-token sequences that no string equals
Null == <<"null">>
Undefined == <<"undefined">>

\* the tag identifiers fetchOG probes, the attributes meta() selects them by,
\* and the <title> element
MetaKeys ==
    {"og:title", "twitter:title", "og:description", "description",
     "twitter:description", "og:image", "twitter:image", "og:url",
     "og:site_name", "og:type"}
MetaAttrs == {"property", "name"}
TitleElement == <<"title", "title">>
Selectors == (MetaAttrs \X MetaKeys) \cup {TitleElement}

\* a page without any of the elements
EmptyHtml == [s \in Selectors |-> Undefined]

\* no metadata object yet
NoOg ==
    [title |-> Undefined, description |-> Undefined, image |-> Undefined,
     url |-> Undefined, siteName |-> Undefined, type |-> Undefined]

\* no extractor or resolveUrl call has been made
InitPure ==
    /\ html = EmptyHtml
    /\ url = <<>>
    /\ og = NoOg
    /\ baseUrl = <<>>
    /\ relativeUrl = Undefined
    /\ resolved = Undefined

InitSession ==
    /\ clock = 0
    /\ nextId = 1
    /\ browserSessions = {}
    /\ inserted = <<>>
    /\ sessions = [i \in Ids |-> NoSession]
    /\ req = [r \in Slots |-> IdleReq]
    /\ resp = NoResp
    /\ sweep = IdleSweep
    /\ closedOk = {}
    /\ shutdown = NoShutdown

Init ==
    /\ InitSession
    /\ InitOG
    /\ InitPure

\* a step of the event loop starts only when the previous one has run to its
\* end, its response written, and only while the process is running
\* (process.exit(0) has not been called, the runtime has not ended it)
Quiet == resp = NoResp /\ shutdown.pc \notin {"exited", "crashed"}

\* a create that hands out the identifier of the previous create again
CreateStart_SameId(r) ==
    /\ Quiet
    /\ req[r].pc = "idle"
    /\ nextId <= MaxSessions
    /\ UNCHANGED nextId
    /\ sessions' = [sessions EXCEPT ![nextId] =
                      [NoSession EXCEPT !.createdAt = clock, !.lastActivity = clock]]
    /\ Await(r, "create", nextId, "launch")
    /\ UNCHANGED <<shutdown, pvars, ogvars, clock, browserSessions, inserted, sweep, closedOk>>

\* --------------------------------------------------- POST /session/create
CreateStart(r) ==
    /\ Quiet
    /\ req[r].pc = "idle"
    /\ nextId <= MaxSessions
    /\ nextId' = nextId + 1
    /\ sessions' = [sessions EXCEPT ![nextId] =
                      [NoSession EXCEPT !.createdAt = clock, !.lastActivity = clock]]
    /\ Await(r, "create", nextId, "launch")
    /\ UNCHANGED <<shutdown, pvars, ogvars, clock, browserSessions, inserted, sweep, closedOk>>

CreateLaunchDone(r, ok) ==
    /\ Quiet
    /\ req[r].pc = "launch"
    /\ IF ok
       THEN /\ sessions' = [sessions EXCEPT ![req[r].id].browser = "live"]
            /\ Await(r, "create", req[r].id, "newPage")
       ELSE /\ Respond(r, "create", req[r].id, 500, TRUE)
            /\ UNCHANGED sessions
    /\ UNCHANGED <<shutdown, pvars, ogvars, clock, nextId, browserSessions, inserted, sweep, closedOk>>

CreateNewPageDone(r, ok) ==
    /\ Quiet
    /\ req[r].pc = "newPage"
    /\ IF ok
       THEN /\ sessions' = [sessions EXCEPT ![req[r].id].page = "open"]
            /\ Await(r, "create", req[r].id, "viewport")
       ELSE /\ Respond(r, "create", req[r].id, 500, TRUE)
            /\ UNCHANGED sessions
    /\ UNCHANGED <<shutdown, pvars, ogvars, clock, nextId, browserSessions, inserted, sweep, closedOk>>

\* the handler without its test of initialize()'s result
CreateViewportDone_NoCheck(r, ok) ==
    /\ Quiet
    /\ req[r].pc = "viewport"
    /\ sessions' = [sessions EXCEPT ![req[r].id].viewport = ok]
    /\ browserSessions' = browserSessions \cup {req[r].id}
    /\ inserted' = Append(inserted, req[r].id)
    /\ resp' = [NoResp EXCEPT !.op = "create", !.id = req[r].id,
                              !.status = 200, !.sessionId = req[r].id]
    /\ req' = [req EXCEPT ![r] = IdleReq]
    /\ UNCHANGED <<shutdown, pvars, ogvars, clock, nextId, sweep, closedOk>>

CreateViewportDone(r, ok) ==
    /\ Quiet
    /\ req[r].pc = "viewport"
    /\ IF ok
       THEN /\ sessions' = [sessions EXCEPT ![req[r].id].viewport = TRUE]
            /\ browserSessions' = browserSessions \cup {req[r].id}
            /\ inserted' = Append(inserted, req[r].id)
            /\ resp' = [NoResp EXCEPT !.op = "create", !.id = req[r].id,
                                      !.status = 200, !.sessionId = req[r].id]
            /\ req' = [req EXCEPT ![r] = IdleReq]
       ELSE /\ Respond(r, "create", req[r].id, 500, TRUE)
            /\ UNCHANGED <<sessions, browserSessions, inserted>>
    /\ UNCHANGED <<shutdown, pvars, ogvars, clock, nextId, sweep, closedOk>>

\* ------------- POST /session/:id/{navigate,click,type,scroll,execute}
InteractStart(r, kind, id, body) ==
    /\ Quiet
    /\ req[r].pc = "idle"
    /\ IF ~ValidBody(kind, body)
       THEN /\ Respond(r, HandlerOf(kind), id, 400, BodyOk(kind, body))
            /\ UNCHANGED sessions
       ELSE IF ~Lookup(id)
       THEN /\ Respond(r, HandlerOf(kind), id, 404, BodyOk(kind, body))
            /\ UNCHANGED sessions
       ELSE IF sessions[id].page = "none"
       THEN /\ Respond(r, HandlerOf(kind), id, 500, BodyOk(kind, body))
            /\ UNCHANGED sessions
       ELSE /\ sessions' = [sessions EXCEPT ![id] = Touched(@)]
            /\ req' = [Refreshed(req, id) EXCEPT ![r] =
                           [op |-> HandlerOf(kind), id |-> id, pc |-> "action",
                            valid |-> BodyOk(kind, body), fresh |-> TRUE]]
            /\ resp' = NoResp
    /\ UNCHANGED <<shutdown, pvars, ogvars, clock, nextId, browserSessions, inserted, sweep, closedOk>>

\* the awaited page.goto / mouse.click / keyboard.type / mouse.wheel / evaluate
ActionDone(r, ok) ==
    /\ Quiet
    /\ req[r].pc = "action"
    /\ ok => PageCanAnswer(req[r].id)
    /\ IF ok
       THEN Await(r, req[r].op, req[r].id, "title")
       ELSE Respond(r, req[r].op, req[r].id, 500, TRUE)
    /\ UNCHANGED <<shutdown, pvars, ogvars, clock, nextId, browserSessions, inserted, sessions, sweep, closedOk>>

\* ------------------------------------------- GET /session/:id/screenshot
ScreenshotStart(r, id) ==
    /\ Quiet
    /\ req[r].pc = "idle"
    /\ IF ~Lookup(id)
       THEN Respond(r, "screenshot", id, 404, TRUE)
       ELSE IF sessions[id].page = "none"
       THEN Respond(r, "screenshot", id, 500, TRUE)
       ELSE /\ req' = [req EXCEPT ![r] =
                           [op |-> "screenshot", id |-> id, pc |-> "title", valid |-> TRUE,
                            fresh |-> sessions[id].lastActivity >= clock]]
            /\ resp' = NoResp
    /\ UNCHANGED <<shutdown, pvars, ogvars, clock, nextId, browserSessions, inserted, sessions, sweep, closedOk>>

\* getPageInfo: the awaited page.title(), then getScreenshot up to its await
TitleDone(r, ok) ==
    /\ Quiet
    /\ req[r].pc = "title"
    /\ ok => PageCanAnswer(req[r].id)
    /\ IF ok
       THEN /\ sessions' = [sessions EXCEPT ![req[r].id] = Touched(@)]
            /\ req' = [Refreshed(req, req[r].id) EXCEPT ![r] =
                           [op |-> req[r].op, id |-> req[r].id, pc |-> "shot",
                            valid |-> req[r].valid, fresh |-> TRUE]]
            /\ resp' = NoResp
       ELSE /\ Respond(r, req[r].op, req[r].id, 500, TRUE)
            /\ UNCHANGED sessions
    /\ UNCHANGED <<shutdown, pvars, ogvars, clock, nextId, browserSessions, inserted, sweep, closedOk>>

\* the awaited page.screenshot(), then res.json(pageInfo)
ShotDone(r, ok) ==
    /\ Quiet
    /\ req[r].pc = "shot"
    /\ ok => PageCanAnswer(req[r].id)
    /\ IF ok
       THEN /\ \E shot \in Shots :
                 resp' = [NoResp EXCEPT !.op = req[r].op, !.id = req[r].id,
                            !.status = 200,
                            !.sessionId = PageInfo(req[r].id, shot).sessionId,
                            !.image = PageInfo(req[r].id, shot).screenshot]
            /\ req' = [req EXCEPT ![r] = IdleReq]
       ELSE Respond(r, req[r].op, req[r].id, 500, TRUE)
    /\ UNCHANGED <<shutdown, pvars, ogvars, clock, nextId, browserSessions, inserted, sessions, sweep, closedOk>>

\* ------------------------------------------------- DELETE /session/:id
CloseStart(r, id) ==
    /\ Quiet
    /\ req[r].pc = "idle"
    /\ IF ~Lookup(id)
       THEN /\ Respond(r, "close", id, 404, TRUE)
            /\ UNCHANGED sessions
       ELSE /\ sessions' = [sessions EXCEPT ![id] = CloseCalled(@)]
            /\ Await(r, "close", id, "closing")
    /\ UNCHANGED <<shutdown, pvars, ogvars, clock, nextId, browserSessions, inserted, sweep, closedOk>>

CloseDone(r, ok) ==
    /\ Quiet
    /\ req[r].pc = "closing"
    /\ IF ok
       THEN /\ sessions' = [sessions EXCEPT ![req[r].id].browser =
                               IF @ = "none" THEN @ ELSE "closed"]
            /\ browserSessions' = StoreDelete(browserSessions, req[r].id)
            /\ closedOk' = closedOk \cup {req[r].id}
            /\ Respond(r, "close", req[r].id, 200, TRUE)
       ELSE /\ Respond(r, "close", req[r].id, 500, TRUE)
            /\ UNCHANGED <<sessions, browserSessions, closedOk>>
    /\ UNCHANGED <<shutdown, pvars, ogvars, clock, nextId, inserted, sweep>>

\* the response is on the wire; the event loop takes its next task
Deliver ==
    /\ resp # NoResp
    /\ resp' = NoResp
    /\ UNCHANGED <<shutdown, pvars, ogvars, clock, nextId, browserSessions, inserted, sessions, req, sweep, closedOk>>

\* ------------------------------------------------ the setInterval sweep
\* the next entry the Map iterator yields after position pos that passes
\* the inactivity test; 0 when the iterator is exhausted first
NextStale(pos, S, ss, now) ==
    LET c == {i \in (pos + 1)..Len(inserted) :
                /\ inserted[i] \in S
                /\ now - ss[inserted[i]].lastActivity > maxInactiveTime}
    IN IF c = {} THEN 0 ELSE Min(c)

SweepStart ==
    /\ Quiet
    /\ sweep.pc = "idle"
    /\ LET n == NextStale(0, browserSessions, sessions, clock)
       IN IF n = 0
          THEN UNCHANGED <<sweep, sessions>>
          ELSE /\ sweep' = [pc |-> "closing", now |-> clock, pos |-> n]
               /\ sessions' = [sessions EXCEPT ![inserted[n]] = CloseCalled(@)]
    /\ UNCHANGED <<shutdown, pvars, ogvars, clock, nextId, browserSessions, inserted, req, resp, closedOk>>

SweepCloseDone(ok) ==
    /\ Quiet
    /\ sweep.pc = "closing"
    /\ IF ok
       THEN LET cur == inserted[sweep.pos]
                S == StoreDelete(browserSessions, cur)
                ss == [sessions EXCEPT ![cur].browser = "closed"]
                n == NextStale(sweep.pos, S, ss, sweep.now)
            IN /\ browserSessions' = S
               /\ IF n = 0
                  THEN /\ sweep' = IdleSweep
                       /\ sessions' = ss
                  ELSE /\ sweep' = [sweep EXCEPT !.pos = n]
                       /\ sessions' = [ss EXCEPT ![inserted[n]] = CloseCalled(@)]
       ELSE /\ sweep' = IdleSweep
            /\ UNCHANGED <<browserSessions, sessions>>
    /\ UNCHANGED <<shutdown, pvars, ogvars, clock, nextId, inserted, req, resp, closedOk>>

\* ---------------------------------------------------------------- time
Tick ==
    /\ Quiet
    /\ clock < MaxTicks * TickMs
    /\ clock' = clock + TickMs
    /\ UNCHANGED <<shutdown, pvars, ogvars, nextId, browserSessions, inserted, sessions, req, resp, sweep, closedOk>>

Next ==
    \/ \E r \in Slots : CreateStart(r)
    \/ \E r \in Slots, ok \in BOOLEAN : CreateLaunchDone(r, ok)
    \/ \E r \in Slots, ok \in BOOLEAN : CreateNewPageDone(r, ok)
    \/ \E r \in Slots, ok \in BOOLEAN : CreateViewportDone(r, ok)
    \/ \E r \in Slots, k \in BodyKinds, id \in Ids, b \in Bodies : InteractStart(r, k, id, b)
    \/ \E r \in Slots, ok \in BOOLEAN : ActionDone(r, ok)
    \/ \E r \in Slots, id \in Ids : ScreenshotStart(r, id)
    \/ \E r \in Slots, ok \in BOOLEAN : TitleDone(r, ok)
    \/ \E r \in Slots, ok \in BOOLEAN : ShotDone(r, ok)
    \/ \E r \in Slots, id \in Ids : CloseStart(r, id)
    \/ \E r \in Slots, ok \in BOOLEAN : CloseDone(r, ok)
    \/ Deliver
    \/ SweepStart
    \/ \E ok \in BOOLEAN : SweepCloseDone(ok)
    \/ Tick

Spec == Init /\ [][Next]_vars

\* the server when no interaction or close request arrives any more: sessions
\* are created, time passes and the interval timer keeps firing its callback
NextSweep ==
    \/ \E r \in Slots : CreateStart(r)
    \/ \E r \in Slots, ok \in BOOLEAN : CreateLaunchDone(r, ok)
    \/ \E r \in Slots, ok \in BOOLEAN : CreateNewPageDone(r, ok)
    \/ \E r \in Slots, ok \in BOOLEAN : CreateViewportDone(r, ok)
    \/ Deliver
    \/ SweepStart
    \/ \E ok \in BOOLEAN : SweepCloseDone(ok)
    \/ Tick

\* setInterval fires again and again, every awaited browser.close() settles
\* (one way or the other), the clock runs and responses get written
SpecSweep ==
    /\ Init
    /\ [][NextSweep]_vars
    /\ WF_vars(SweepStart)
    /\ WF_vars(\E ok \in BOOLEAN : SweepCloseDone(ok))
    /\ WF_vars(Tick)
    /\ WF_vars(Deliver)

\* ------------------------------------------- SIGTERM / SIGINT shutdown
\* the next entry the iterator of browserSessions.values() yields after
\* position pos; 0 when it is exhausted
NextEntry(pos, S) ==
    LET c == {i \in (pos + 1)..Len(inserted) : inserted[i] \in S}
    IN IF c = {} THEN 0 ELSE Min(c)

\* process.on('SIGTERM' / 'SIGINT'): gracefulShutdown up to its first await,
\* or to process.exit(0) when the Map is empty
ShutdownStart ==
    /\ Quiet
    /\ shutdown.pc \in {"idle", "failed"}
    /\ LET n == NextEntry(0, browserSessions)
       IN IF n = 0
          THEN /\ shutdown' = [shutdown EXCEPT !.pc = "exited", !.pos = 0]
               /\ UNCHANGED sessions
          ELSE /\ shutdown' = [pc |-> "closing", pos |-> n,
                               called |-> shutdown.called \cup {inserted[n]}]
               /\ sessions' = [sessions EXCEPT ![inserted[n]] = CloseCalled(@)]
    /\ UNCHANGED <<pvars, ogvars, clock, nextId, browserSessions, inserted, req, resp, sweep,
                   closedOk>>

\* the awaited session.close() settles: the loop goes on to the next entry,
\* or to process.exit(0); a throw rejects gracefulShutdown where it stands,
\* and the rejection, which nothing handles, either ends the process (the
\* default of current runtimes) or is reported and ignored
ShutdownCloseDone(ok) ==
    /\ Quiet
    /\ shutdown.pc = "closing"
    /\ IF ok
       THEN LET cur == inserted[shutdown.pos]
                ss == [sessions EXCEPT ![cur].browser = "closed"]
                n == NextEntry(shutdown.pos, browserSessions)
            IN IF n = 0
               THEN /\ shutdown' = [shutdown EXCEPT !.pc = "exited"]
                    /\ sessions' = ss
               ELSE /\ shutdown' = [shutdown EXCEPT !.pos = n,
                                       !.called = @ \cup {inserted[n]}]
                    /\ sessions' = [ss EXCEPT ![inserted[n]] = CloseCalled(@)]
       ELSE /\ \E end \in {"crashed", "failed"} :
                 shutdown' = [shutdown EXCEPT !.pc = end]
            /\ UNCHANGED sessions
    /\ UNCHANGED <<pvars, ogvars, clock, nextId, browserSessions, inserted, req, resp, sweep,
                   closedOk>>

\* the server with its signal handlers: sessions are created, closed by
\* DELETE and by the sweep, and a signal may arrive at any moment
NextShutdown ==
    \/ \E r \in Slots : CreateStart(r)
    \/ \E r \in Slots, ok \in BOOLEAN : CreateLaunchDone(r, ok)
    \/ \E r \in Slots, ok \in BOOLEAN : CreateNewPageDone(r, ok)
    \/ \E r \in Slots, ok \in BOOLEAN : CreateViewportDone(r, ok)
    \/ \E r \in Slots, id \in Ids : CloseStart(r, id)
    \/ \E r \in Slots, ok \in BOOLEAN : CloseDone(r, ok)
    \/ Deliver
    \/ SweepStart
    \/ \E ok \in BOOLEAN : SweepCloseDone(ok)
    \/ Tick
    \/ ShutdownStart
    \/ \E ok \in BOOLEAN : ShutdownCloseDone(ok)

SpecShutdown == Init /\ [][NextShutdown]_vars

\* ================================================== the Open Graph service
\* req.params[0]: empty, text decodeURIComponent throws on, text new URL
\* throws on, or the encoding of an absolute URL
Targets == {"missing", "undecodable", "malformed", "valid"}
GotoOutcomes == {"ok", "error", "timeout"}

\* the contexts created in the browser of launch n
ContextsOf(n) == {fetch[f].ctx : f \in {g \in FetchIds : fetch[g].b = n}} \ {0}

\* the engine of fetch f still answers protocol calls
EngineAlive(f) == launches[fetch[f].b] = "live"

\* the top-level fields of the JSON body the route sends, and the value of
\* its success field: res.send({og, success: true}) for a metadata object,
\* res.status(500).json({success: false}) for undefined
Payload(result) ==
    CASE result = "og" -> [keys |-> {"og", "success"}, success |-> "true"]
      [] result = "undefined" -> [keys |-> {"success"}, success |-> "false"]
      [] OTHER -> [keys |-> {}, success |-> "absent"]

\* fetchOG is over: its value (or rejection) reaches the route handler, which
\* answers 200 with the metadata, 500 when it got undefined, and nothing at
\* all when fetchOG rejected (the handler has no try/catch)
Finish(f, result) ==
    [fetch[f] EXCEPT !.pc = "done", !.result = result,
                     !.status = CASE result = "og" -> 200
                                  [] result = "undefined" -> 500
                                  [] OTHER -> 0,
                     !.keys = Payload(result).keys,
                     !.success = Payload(result).success]

\* a close that takes every open context of the engine with it
ContextClosed_All(C, c) == {}

\* context.close() has released context c
ContextClosed(C, c) == C \ {c}

\* a getBrowser that launches on every call
Memoized_Never == FALSE

\* getBrowser: browserPromise holds a launch (the test !browserPromise fails)
Memoized == browserPromise # 0

\* a route that calls getBrowser before it looks at the target
OgRequest_BrowserFirst(f, target) ==
    /\ fetch[f].pc = "idle"
    /\ IF Memoized
       THEN UNCHANGED <<browserPromise, launches>>
       ELSE /\ \E n \in LaunchIds : launches[n] = "unused"
            /\ browserPromise' = Min({m \in LaunchIds : launches[m] = "unused"})
            /\ launches' = [launches EXCEPT ![browserPromise'] = "pending"]
    /\ fetch' = [fetch EXCEPT ![f] =
                   IF target # "valid"
                   THEN [IdleFetch EXCEPT !.target = target, !.pc = "done",
                                          !.status = 400, !.keys = {"error"}]
                   ELSE [IdleFetch EXCEPT !.target = target, !.pc = "getBrowser",
                                          !.b = browserPromise']]
    /\ UNCHANGED <<pvars, svars, openContexts, nextCtx>>

\* GET /api/og/* up to the first await of fetchOG: validation, then getBrowser
OgRequest(f, target) ==
    /\ fetch[f].pc = "idle"
    /\ IF target # "valid"
       THEN /\ fetch' = [fetch EXCEPT ![f] =
                           [IdleFetch EXCEPT !.target = target, !.pc = "done",
                                             !.status = 400, !.keys = {"error"}]]
            /\ UNCHANGED <<browserPromise, launches>>
       ELSE IF ~Memoized
       THEN /\ \E n \in LaunchIds : launches[n] = "unused"
            /\ LET n == Min({m \in LaunchIds : launches[m] = "unused"})
               IN /\ launches' = [launches EXCEPT ![n] = "pending"]
                  /\ browserPromise' = n
                  /\ fetch' = [fetch EXCEPT ![f] =
                                 [IdleFetch EXCEPT !.target = target,
                                                   !.pc = "getBrowser", !.b = n]]
       ELSE /\ fetch' = [fetch EXCEPT ![f] =
                           [IdleFetch EXCEPT !.target = target, !.pc = "getBrowser",
                                             !.b = browserPromise]]
            /\ UNCHANGED <<browserPromise, launches>>
    /\ UNCHANGED <<pvars, svars, openContexts, nextCtx>>

\* puppeteer.launch settles; on success .then registers the disconnect listener
LaunchDone(n, ok) ==
    /\ launches[n] = "pending"
    /\ launches' = [launches EXCEPT ![n] = IF ok THEN "live" ELSE "failed"]
    /\ UNCHANGED <<pvars, svars, browserPromise, fetch, openContexts, nextCtx>>

\* a disconnect listener that leaves browserPromise as it is
Disconnect_NoReset(n) ==
    /\ launches[n] = "live"
    /\ launches' = [launches EXCEPT ![n] = "disconnected"]
    /\ openContexts' = openContexts \ ContextsOf(n)
    /\ UNCHANGED <<pvars, svars, browserPromise, fetch, nextCtx>>

\* the browser process of launch n goes away: b.on('disconnected', ...)
Disconnect(n) ==
    /\ launches[n] = "live"
    /\ launches' = [launches EXCEPT ![n] = "disconnected"]
    /\ browserPromise' = 0
    /\ openContexts' = openContexts \ ContextsOf(n)
    /\ UNCHANGED <<pvars, svars, fetch, nextCtx>>

\* await getBrowser() settles; then browser.createBrowserContext() is awaited
FetchGotBrowser(f) ==
    /\ fetch[f].pc = "getBrowser"
    /\ launches[fetch[f].b] # "pending"
    /\ fetch' = [fetch EXCEPT ![f] =
                   IF launches[fetch[f].b] = "failed"
                   THEN Finish(f, "rejected")
                   ELSE [@ EXCEPT !.pc = "createCtx"]]
    /\ UNCHANGED <<pvars, svars, browserPromise, launches, openContexts, nextCtx>>

\* createBrowserContext settles (outside the try); then context.newPage()
FetchCtxDone(f, ok) ==
    /\ fetch[f].pc = "createCtx"
    /\ ok => EngineAlive(f)
    /\ IF ok
       THEN /\ fetch' = [fetch EXCEPT ![f].pc = "newPage", ![f].ctx = nextCtx]
            /\ openContexts' = openContexts \cup {nextCtx}
            /\ nextCtx' = nextCtx + 1
       ELSE /\ fetch' = [fetch EXCEPT ![f] = Finish(f, "rejected")]
            /\ UNCHANGED <<openContexts, nextCtx>>
    /\ UNCHANGED <<pvars, svars, browserPromise, launches>>

\* an awaited call inside the try block settles: on success the code goes on
\* to the next await, on a throw the catch block calls context.close()
TryStep(f, from, to, ok) ==
    /\ fetch[f].pc = from
    /\ ok => EngineAlive(f)
    /\ fetch' = [fetch EXCEPT ![f].pc = IF ok THEN to ELSE "catchClose"]
    /\ UNCHANGED <<pvars, svars, browserPromise, launches, openContexts, nextCtx>>

FetchNewPageDone(f, ok) == TryStep(f, "newPage", "setJs", ok)

FetchSetJsDone(f, ok) == TryStep(f, "setJs", "setIntercept", ok)

FetchSetInterceptDone(f, ok) == TryStep(f, "setIntercept", "setUA", ok)

FetchSetUADone(f, ok) == TryStep(f, "setUA", "goto", ok)

\* page.goto: loaded, failed, or no answer within the 30000 ms timeout
FetchGotoDone(f, outcome) == TryStep(f, "goto", "content", outcome = "ok")

FetchContentDone(f, ok) == TryStep(f, "content", "pageClose", ok)

FetchPageCloseDone(f, ok) == TryStep(f, "pageClose", "ctxClose", ok)

\* context.close() in the try block: it releases the context when the engine
\* is alive and throws when the engine is gone; then the metadata is returned
FetchCtxCloseDone(f) ==
    /\ fetch[f].pc = "ctxClose"
    /\ IF EngineAlive(f)
       THEN /\ openContexts' = ContextClosed(openContexts, fetch[f].ctx)
            /\ fetch' = [fetch EXCEPT ![f] = Finish(f, "og")]
       ELSE /\ fetch' = [fetch EXCEPT ![f].pc = "catchClose"]
            /\ UNCHANGED openContexts
    /\ UNCHANGED <<pvars, svars, browserPromise, launches, nextCtx>>

\* a catch block that returns undefined without closing the context
FetchCatchCloseDone_Leak(f) ==
    /\ fetch[f].pc = "catchClose"
    /\ fetch' = [fetch EXCEPT ![f] = Finish(f, IF EngineAlive(f) THEN "undefined" ELSE "rejected")]
    /\ UNCHANGED <<pvars, svars, browserPromise, launches, openContexts, nextCtx>>

\* context.close() in the catch block, then return undefined
FetchCatchCloseDone(f) ==
    /\ fetch[f].pc = "catchClose"
    /\ IF EngineAlive(f)
       THEN /\ openContexts' = ContextClosed(openContexts, fetch[f].ctx)
            /\ fetch' = [fetch EXCEPT ![f] = Finish(f, "undefined")]
       ELSE /\ fetch' = [fetch EXCEPT ![f] = Finish(f, "rejected")]
            /\ UNCHANGED openContexts
    /\ UNCHANGED <<pvars, svars, browserPromise, launches, nextCtx>>

NextOG ==
    \/ \E f \in FetchIds, t \in Targets : OgRequest(f, t)
    \/ \E n \in LaunchIds, ok \in BOOLEAN : LaunchDone(n, ok)
    \/ \E n \in LaunchIds : Disconnect(n)
    \/ \E f \in FetchIds : FetchGotBrowser(f)
    \/ \E f \in FetchIds, ok \in BOOLEAN : FetchCtxDone(f, ok)
    \/ \E f \in FetchIds, ok \in BOOLEAN : FetchNewPageDone(f, ok)
    \/ \E f \in FetchIds, ok \in BOOLEAN : FetchSetJsDone(f, ok)
    \/ \E f \in FetchIds, ok \in BOOLEAN : FetchSetInterceptDone(f, ok)
    \/ \E f \in FetchIds, ok \in BOOLEAN : FetchSetUADone(f, ok)
    \/ \E f \in FetchIds, o \in GotoOutcomes : FetchGotoDone(f, o)
    \/ \E f \in FetchIds, ok \in BOOLEAN : FetchContentDone(f, ok)
    \/ \E f \in FetchIds, ok \in BOOLEAN : FetchPageCloseDone(f, ok)
    \/ \E f \in FetchIds : FetchCtxCloseDone(f)
    \/ \E f \in FetchIds : FetchCatchCloseDone(f)

SpecOG == Init /\ [][NextOG]_vars

\* ============================================ resolveUrl and the extractor
\* new URL(input, base) as the WHATWG URL standard defines it, for text over
\* letters, digits, space and the punctuation that occurs below; credentials,
\* backslashes, quotation marks, percent signs, numeric hosts and file: URLs
\* are not covered.
UpperCase == <<"A", "B", "C", "D", "E", "F", "G", "H", "I", "J", "K", "L", "M", "N", "O", "P",
    "Q", "R", "S", "T", "U", "V", "W", "X", "Y", "Z">>
LowerCase == <<"a", "b", "c", "d", "e", "f", "g", "h", "i", "j", "k", "l", "m", "n", "o", "p",
    "q", "r", "s", "t", "u", "v", "w", "x", "y", "z">>
Digit == {"0", "1", "2", "3", "4", "5", "6", "7", "8", "9"}
Alpha == Range(UpperCase) \cup Range(LowerCase)

SpecialSchemes == {<<"h", "t", "t", "p">>, <<"h", "t", "t", "p", "s">>, <<"f", "t", "p">>,
    <<"w", "s">>, <<"w", "s", "s">>}

DefaultPort(scheme) ==
    CASE scheme \in {<<"h", "t", "t", "p">>, <<"w", "s">>} -> <<"8", "0">>
      [] scheme \in {<<"h", "t", "t", "p", "s">>, <<"w", "s", "s">>} -> <<"4", "4", "3">>
      [] OTHER -> <<"2", "1">>

ForbiddenHost == {" ", "#", "/", ":", "<", ">", "?", "@", "[", "]", "^", "|"}
PathEncodeSet == {" ", "<", ">", "{", "}"}
QueryEncodeSet == {" ", "<", ">", "'"}
FragmentEncodeSet == {" ", "<", ">"}

PercentCode(c) ==
    CASE c = " " -> <<"%", "2", "0">>
      [] c = "'" -> <<"%", "2", "7">>
      [] c = "<" -> <<"%", "3", "C">>
      [] c = ">" -> <<"%", "3", "E">>
      [] c = "{" -> <<"%", "7", "B">>
      [] c = "}" -> <<"%", "7", "D">>

ToLower(c) ==
    IF c \in Range(UpperCase)
    THEN LowerCase[CHOOSE i \in DOMAIN UpperCase : UpperCase[i] = c]
    ELSE c

LowerAll(s) == [i \in 1..Len(s) |-> ToLower(s[i])]

\* the position of the first character of s that is in C, Len(s) + 1 if none
IndexOf(s, C) == Min({i \in 1..Len(s) : s[i] \in C} \cup {Len(s) + 1})

StartsWith(s, p) == Len(s) >= Len(p) /\ SubSeq(s, 1, Len(p)) = p

Front(s) == SubSeq(s, 1, Len(s) - 1)

\* leading and trailing spaces are removed from the input
RECURSIVE Trim(_)
Trim(s) ==
    IF s # <<>> /\ s[1] = " " THEN Trim(Tail(s))
    ELSE IF s # <<>> /\ s[Len(s)] = " " THEN Trim(Front(s))
    ELSE s

\* special authority ignore slashes state
RECURSIVE DropSlashes(_)
DropSlashes(s) == IF s # <<>> /\ s[1] = "/" THEN DropSlashes(Tail(s)) ELSE s

\* percent-encode the characters of s that are in set
RECURSIVE Encode(_, _)
Encode(s, set) ==
    IF s = <<>> THEN <<>>
    ELSE (IF s[1] \in set THEN PercentCode(s[1]) ELSE <<s[1]>>) \o Encode(Tail(s), set)

EncodeOrNull(s, set) == IF s = Null THEN Null ELSE Encode(s, set)

\* the segments of s between its slashes
RECURSIVE Split(_)
Split(s) ==
    LET k == IndexOf(s, {"/"})
    IN IF k > Len(s) THEN <<s>>
       ELSE <<SubSeq(s, 1, k - 1)>> \o Split(SubSeq(s, k + 1, Len(s)))

\* path state: each segment is appended to the path acc, ".." removes the
\* last one, and a final "." or ".." leaves an empty last segment
RECURSIVE Normalize(_, _)
Normalize(segs, acc) ==
    IF segs = <<>> THEN acc
    ELSE LET h == Head(segs)
             last == IF Len(segs) = 1 THEN << <<>> >> ELSE <<>>
         IN IF h = <<".", ".">>
            THEN Normalize(Tail(segs), (IF acc = <<>> THEN acc ELSE Front(acc)) \o last)
            ELSE IF h = <<".">>
            THEN Normalize(Tail(segs), acc \o last)
            ELSE Normalize(Tail(segs), Append(acc, Encode(h, PathEncodeSet)))

PathOf(s, acc) == Normalize(Split(s), acc)

RECURSIVE Join(_)
Join(segs) == IF segs = <<>> THEN <<>> ELSE <<"/">> \o Head(segs) \o Join(Tail(segs))

\* s cut at its first "#" and, before that, at its first "?"
Parts(s) ==
    LET h == IndexOf(s, {"#"})
        b == SubSeq(s, 1, h - 1)
        q == IndexOf(b, {"?"})
    IN [path |-> SubSeq(b, 1, q - 1),
        query |-> IF q > Len(b) THEN Null ELSE SubSeq(b, q + 1, Len(b)),
        fragment |-> IF h > Len(s) THEN Null ELSE SubSeq(s, h + 1, Len(s))]

\* the parser returns failure, new URL throws
Failure ==
    [ok |-> FALSE, scheme |-> <<>>, host |-> <<>>, port |-> <<>>, path |-> <<>>,
     query |-> Null, fragment |-> Null, opaque |-> Null]

\* scheme start state and scheme state: a letter, then letters, digits, "+",
\* "-" or ".", then ":"
HasScheme(s) ==
    LET k == IndexOf(s, {":"})
    IN /\ 1 < k
       /\ k <= Len(s)
       /\ s[1] \in Alpha
       /\ \A i \in 2..(k - 1) : s[i] \in Alpha \cup Digit \cup {"+", "-", "."}

SchemeOf(s) == LowerAll(SubSeq(s, 1, IndexOf(s, {":"}) - 1))

AfterScheme(s) == SubSeq(s, IndexOf(s, {":"}) + 1, Len(s))

\* host state and port state
HostPort(scheme, auth) ==
    LET bracket == auth # <<>> /\ auth[1] = "["
        hostEnd == IF bracket THEN IndexOf(auth, {"]"}) ELSE IndexOf(auth, {":"}) - 1
        host == SubSeq(auth, 1, hostEnd)
        after == SubSeq(auth, hostEnd + 1, Len(auth))
        port == IF after = <<>> THEN <<>> ELSE Tail(after)
        failure == [ok |-> FALSE, host |-> <<>>, port |-> <<>>]
    IN IF bracket /\ hostEnd > Len(auth) THEN failure
       ELSE IF host = <<>> THEN failure
       ELSE IF ~bracket /\ \E i \in 1..Len(host) : host[i] \in ForbiddenHost THEN failure
       ELSE IF after # <<>> /\ after[1] # ":" THEN failure
       ELSE IF \E i \in 1..Len(port) : port[i] \notin Digit THEN failure
       ELSE [ok |-> TRUE, host |-> LowerAll(host),
             port |-> IF port = DefaultPort(scheme) THEN <<>> ELSE port]

\* authority state and what follows it, for a special scheme
Authority(scheme, s) ==
    LET a == IndexOf(s, {"/", "?", "#"})
        hp == HostPort(scheme, SubSeq(s, 1, a - 1))
        p == Parts(SubSeq(s, a, Len(s)))
    IN IF ~hp.ok THEN Failure
       ELSE [ok |-> TRUE, scheme |-> scheme, host |-> hp.host, port |-> hp.port,
             path |-> PathOf(IF p.path = <<>> THEN <<>> ELSE Tail(p.path), <<>>),
             query |-> EncodeOrNull(p.query, QueryEncodeSet),
             fragment |-> EncodeOrNull(p.fragment, FragmentEncodeSet),
             opaque |-> Null]

\* relative state: t is resolved against the parsed base b
Relative(t, b) ==
    IF StartsWith(t, <<"/", "/">>) THEN Authority(b.scheme, DropSlashes(t))
    ELSE LET p == Parts(t)
         IN [b EXCEPT !.path = IF p.path = <<>> THEN b.path
                               ELSE IF p.path[1] = "/" THEN PathOf(Tail(p.path), <<>>)
                               ELSE PathOf(p.path, Front(b.path)),
                      !.query = IF p.path = <<>> /\ p.query = Null THEN b.query
                                ELSE EncodeOrNull(p.query, QueryEncodeSet),
                      !.fragment = EncodeOrNull(p.fragment, FragmentEncodeSet)]

\* the basic URL parser on the trimmed input t, with base b when hasBase
BasicParse(t, hasBase, b) ==
    IF HasScheme(t)
    THEN IF SchemeOf(t) \notin SpecialSchemes
         THEN [Failure EXCEPT !.ok = TRUE, !.scheme = SchemeOf(t), !.opaque = AfterScheme(t)]
         ELSE IF hasBase /\ b.scheme = SchemeOf(t) /\ ~StartsWith(AfterScheme(t), <<"/", "/">>)
         THEN Relative(AfterScheme(t), b)
         ELSE Authority(SchemeOf(t), DropSlashes(AfterScheme(t)))
    ELSE IF ~hasBase \/ b.opaque # Null THEN Failure
    ELSE Relative(t, b)

\* new NodeURL(input, base): the base is parsed first, then the input
NewURL(input, base) ==
    LET b == BasicParse(Trim(base), FALSE, Failure)
    IN IF ~b.ok THEN Failure ELSE BasicParse(Trim(input), TRUE, b)

\* URL.prototype.toString()
Serialize(u) ==
    IF u.opaque # Null THEN u.scheme \o <<":">> \o u.opaque
    ELSE u.scheme \o <<":", "/", "/">> \o u.host
         \o (IF u.port = <<>> THEN <<>> ELSE <<":">> \o u.port)
         \o Join(u.path)
         \o (IF u.query = Null THEN <<>> ELSE <<"?">> \o u.query)
         \o (IF u.fragment = Null THEN <<>> ELSE <<"#">> \o u.fragment)

\* !v
Falsy(v) == v \in {Null, Undefined, <<>>}

\* a || b
Or(a, b) == IF Falsy(a) THEN b ELSE a

\* a resolveUrl without the catch: what does not parse becomes null
resolveUrl_NullOnError(base, rel) ==
    IF Falsy(rel) THEN rel
    ELSE IF NewURL(rel, base).ok THEN Serialize(NewURL(rel, base)) ELSE Null

resolveUrl(base, rel) ==
    IF Falsy(rel) THEN rel
    ELSE IF NewURL(rel, base).ok THEN Serialize(NewURL(rel, base)) ELSE rel

\* the arguments resolveUrl is called with
Bases ==
    {<<"h", "t", "t", "p", "s", ":", "/", "/", "a", ".", "c", "o", "m">>,
     <<"h", "t", "t", "p", "s", ":", "/", "/", "a", ".", "c", "o", "m", "/", "x", "/", "y", "?",
         "k", "=", "v", "#", "f">>,
     <<"a", ".", "c", "o", "m">>}

Candidates ==
    {Null,
     <<>>,
     <<"i", "m", "g", ".", "p", "n", "g">>,
     <<"/", "i", "m", "g", ".", "p", "n", "g">>,
     <<".", ".", "/", "i", ".", "p", "n", "g">>,
     <<".", "/", "a", "/", ".", ".", "/", "i", ".", "p", "n", "g">>,
     <<"/", "/", "c", "d", "n", ".", "b", ".", "c", "o", "m", "/", "i", ".", "p", "n", "g">>,
     <<"h", "t", "t", "p", "s", ":", "/", "/", "B", ".", "c", "o", "m", "/", "i", ".", "p", "n",
         "g">>,
     <<"H", "T", "T", "P", "S", ":", "/", "/", "b", ".", "c", "o", "m">>,
     <<"h", "t", "t", "p", "s", ":", "/", "/", "b", ".", "c", "o", "m", ":", "4", "4", "3", "/",
         "p", "?", "q", "=", "a", " ", "b", "#", "f", " ", "g">>,
     <<"h", "t", "t", "p", "s", ":", "/", "b", ".", "c", "o", "m", "/", "i", ".", "p", "n", "g">>,
     <<"h", "t", "t", "p", "s", ":", "i", ".", "p", "n", "g">>,
     <<"h", "t", "t", "p", ":", "/", "/", "b", ".", "c", "o", "m", ":", "8", "0", "8", "0">>,
     <<"?", "q", "=", "1">>,
     <<"#", "t", "o", "p">>,
     <<" ">>,
     <<" ", "/", "i", ".", "p", "n", "g", " ">>,
     <<"n", "o", "t", " ", "a", " ", "u", "r", "l", "!", "!">>,
     <<"h", "t", "t", "p", ":", "/", "/", "[">>,
     <<"h", "t", "t", "p", ":", "/", "/">>,
     <<"h", "t", "t", "p", "s", ":", "/", "/", "b", " ", "c", ".", "c", "o", "m", "/">>,
     <<"h", "t", "t", "p", "s", ":", "/", "/", "b", ".", "c", "o", "m", ":", "x", "/">>,
     <<"m", "a", "i", "l", "t", "o", ":", "s", "i", "t", "e">>,
     <<"<", "i", ">", ".", "p", "n", "g">>}

InitResolve ==
    /\ InitSession
    /\ InitOG
    /\ html = EmptyHtml
    /\ url = <<>>
    /\ og = NoOg
    /\ baseUrl \in Bases
    /\ relativeUrl \in Candidates
    /\ resolved = Undefined

Resolve ==
    /\ relativeUrl # Undefined
    /\ resolved = Undefined
    /\ resolved' = resolveUrl(baseUrl, relativeUrl)
    /\ UNCHANGED <<svars, ogvars, html, url, og, baseUrl, relativeUrl>>

NextResolve == Resolve

SpecResolve == InitResolve /\ [][NextResolve]_vars

\* ---- the extractor of fetchOG
\* a meta() that probes the name attribute first
meta_NameFirst(prop) == Or(Or(html[<<"name", prop>>], html[<<"property", prop>>]), Null)

\* $('meta[property="..."]').attr('content') ||
\* $('meta[name="..."]').attr('content') || null
meta(prop) == Or(Or(html[<<"property", prop>>], html[<<"name", prop>>]), Null)

\* $('title').first().text()
TitleText == IF html[TitleElement] = Undefined THEN <<>> ELSE html[TitleElement]

\* the object fetchOG returns
ExtractOG ==
    [title |-> Or(Or(Or(meta("og:title"), meta("twitter:title")), TitleText), Null),
     description |-> Or(Or(Or(meta("og:description"), meta("description")),
                           meta("twitter:description")), Null),
     image |-> Or(resolveUrl(url, meta("og:image")), resolveUrl(url, meta("twitter:image"))),
     url |-> Or(meta("og:url"), url),
     siteName |-> meta("og:site_name"),
     type |-> Or(meta("og:type"), Null)]

\* what an element that is present can hold, besides the empty string
TextValues == <<<<"A", "l", "p", "h", "a">>, <<"B", "e", "t", "a">>>>
OgImageValues == <<<<"/", "i", ".", "p", "n", "g">>, <<"h", "t", "t", "p", "s", ":", "/", "/",
    "B", ".", "c", "o", "m", "/", "j", ".", "p", "n", "g">>>>
TwitterImageValues == <<<<"k", ".", "p", "n", "g">>, <<"h", "t", "t", "p", ":", "/", "/", "[">>>>

Content(sel, v) ==
    IF v = 0 THEN <<>>
    ELSE IF sel[2] = "og:image" THEN OgImageValues[v]
    ELSE IF sel[2] = "twitter:image" THEN TwitterImageValues[v]
    ELSE TextValues[v]

PageUrls == {<<"h", "t", "t", "p", "s", ":", "/", "/", "a", ".", "c", "o", "m">>, <<"h", "t",
    "t", "p", "s", ":", "/", "/", "a", ".", "c", "o", "m", "/", "x", "/", "y">>}

\* the subsets of S with at most k elements
RECURSIVE KSubsets(_, _)
KSubsets(S, k) ==
    IF k = 0 THEN {{}}
    ELSE LET T == KSubsets(S, k - 1)
         IN T \cup {t \cup {x} : t \in T, x \in S}

InitExtract ==
    /\ InitSession
    /\ InitOG
    /\ baseUrl = <<>>
    /\ relativeUrl = Undefined
    /\ resolved = Undefined
    /\ og = NoOg
    /\ url \in PageUrls
    /\ \E P \in KSubsets(Selectors, MaxTags) :
         \E v \in [P -> {0} \cup DOMAIN TextValues] :
            html = [s \in Selectors |-> IF s \in P THEN Content(s, v[s]) ELSE Undefined]

Extract ==
    /\ url # <<>>
    /\ og = NoOg
    /\ og' = ExtractOG
    /\ UNCHANGED <<svars, ogvars, html, url, baseUrl, relativeUrl, resolved>>

NextExtract == Extract

SpecExtract == InitExtract /\ [][NextExtract]_vars

\* ================================================================ claims
PagePcs == {"action", "title", "shot"}

\* In this step a handler other than create ran its synchronous first part
\* for a request addressed to id: it either suspended at its first await or
\* answered at once.
StartedOn(id) ==
    \/ \E r \in Slots : /\ req[r].pc = "idle"
                        /\ req'[r].pc # "idle"
                        /\ req'[r].op # "create"
                        /\ req'[r].id = id
    \/ /\ req' = req
       /\ resp = NoResp
       /\ resp' # NoResp
       /\ resp'.op # "create"
       /\ resp'.id = id

\* C1: once DELETE has answered 200 for an identifier, the identifier has no
\* entry in the store ever after, and every later interaction or close request
\* on it (with a valid body) is answered 404 at once, without touching a page.
C1_ClosedStaysClosed ==
    /\ [](closedOk \cap browserSessions = {})
    /\ [][\A id \in closedOk :
             StartedOn(id) => /\ req' = req
                              /\ resp'.valid => resp'.status = 404]_vars

C1_Witness ==
    /\ resp.status = 404
    /\ resp.op = "interact"
    /\ resp.valid
    /\ resp.id \in closedOk

\* C2 (as claimed): when the sweep removes a session, that session's
\* lastActivity is more than maxInactiveTime in the past.
C2_SweepRemovesOnlyStale ==
    [][\A id \in Ids :
          (sweep' # sweep /\ id \in browserSessions /\ id \notin browserSessions')
              => clock - sessions[id].lastActivity > maxInactiveTime]_vars

\* C3 (as claimed): browser.close() is invoked at most once on a session.
C3_NoDoubleClose == \A id \in Ids : sessions[id].closeCalls <= 1

\* C4 (as claimed): no interaction is awaiting a page call of a session whose
\* browser is being closed or has been closed.
C4_NoInteractionDuringTeardown ==
    \A r \in Slots :
        req[r].pc \in PagePcs => sessions[req[r].id].browser \notin {"closing", "closed"}

\* C5 (as claimed): at no time are two operations in progress on the page of
\* one session.
C5_OneOperationPerPage ==
    \A r1, r2 \in Slots :
        (r1 # r2 /\ req[r1].pc \in PagePcs /\ req[r2].pc \in PagePcs)
            => req[r1].id # req[r2].id

\* C6: lastActivity of a session never decreases, and is never earlier than
\* the session's createdAt.
C6_LastActivityMonotone ==
    /\ [](\A id \in Ids : sessions[id].lastActivity >= sessions[id].createdAt)
    /\ [][\A id \in Ids : sessions'[id].lastActivity >= sessions[id].lastActivity]_vars

C6_Witness ==
    \E id \in browserSessions :
        /\ sessions[id].lastActivity > sessions[id].createdAt
        /\ \E r \in Slots : req[r].pc = "shot" /\ req[r].id = id

\* C7: a create whose launch, page creation or viewport setup fails answers
\* 500 and leaves the store as it was; every entry of the store belongs to a
\* session whose initialization went through, and an entry appears only in
\* the step that answers the create with 200.
C7_FailedCreateLeavesNoEntry ==
    /\ [](\A id \in browserSessions :
             /\ sessions[id].browser # "none"
             /\ sessions[id].page = "open"
             /\ sessions[id].viewport)
    /\ []((resp.op = "create" /\ resp.status # 200)
             => (resp.status = 500 /\ resp.id \notin browserSessions))
    /\ [][(\E r \in Slots : req[r].op = "create" /\ req'[r] # req[r] /\ resp'.status # 200)
             => browserSessions' = browserSessions]_vars
    /\ [][\A id \in Ids : (id \notin browserSessions /\ id \in browserSessions')
             => (resp'.op = "create" /\ resp'.status = 200 /\ resp'.id = id)]_vars

C7_Witness ==
    /\ resp.op = "create"
    /\ resp.status = 500
    /\ sessions[resp.id].browser = "live"
    /\ sessions[resp.id].page = "open"
    /\ browserSessions # {}

\* the answered screenshot request was for an identifier a create returned,
\* and no close of that session (by DELETE or by the sweep) has started
ImmediateScreenshot ==
    /\ resp.op = "screenshot"
    /\ resp.id \in Range(inserted)
    /\ sessions[resp.id].closeCalls = 0

\* C8 (as claimed): such a screenshot request always succeeds with a snapshot
\* that carries the identifier and a non-empty image.
C8_ImmediateScreenshotSucceeds ==
    ImmediateScreenshot =>
        (resp.status = 200 /\ resp.sessionId = resp.id /\ resp.image # <<>>)

\* C8 (amended): such a screenshot request is never answered "not found": it
\* is answered 200 with a snapshot that carries the identifier and a non-empty
\* image, or 500 when page.title() or page.screenshot() throws.
C8_ImmediateScreenshotFound ==
    ImmediateScreenshot =>
        /\ resp.status \in {200, 500}
        /\ resp.status = 200 => (resp.sessionId = resp.id /\ resp.image # <<>>)

C8_Witness ==
    /\ ImmediateScreenshot
    /\ resp.status = 200
    /\ resp.sessionId = resp.id

\* C9: an interaction or close request with a valid body addressed to an
\* identifier without an entry is answered 404 at once (never suspended at a
\* page call), and the store and every session object stay as they were.
C9_MissingIdReports404 ==
    [][\A id \in Ids \ browserSessions :
          StartedOn(id) => /\ req' = req
                           /\ resp'.status \in {400, 404}
                           /\ resp'.valid => resp'.status = 404
                           /\ UNCHANGED <<browserSessions, inserted, sessions>>]_vars

C9_Witness ==
    /\ resp.status = 404
    /\ resp.op = "close"
    /\ resp.id \notin Range(inserted)
    /\ browserSessions # {}

\* C10: a fetchOG call that opened a browsing context has closed it when it
\* returns or rejects: the open contexts are all contexts of calls still
\* running.
C10_ContextAlwaysClosed ==
    /\ \A f \in FetchIds :
          (fetch[f].pc = "done" /\ fetch[f].ctx # 0) => fetch[f].ctx \notin openContexts
    /\ openContexts \subseteq {fetch[f].ctx : f \in {g \in FetchIds : fetch[g].pc \notin {"idle", "done"}}}

C10_Witness ==
    \E f \in FetchIds :
        /\ fetch[f].pc = "done"
        /\ fetch[f].ctx # 0
        /\ fetch[f].result = "undefined"
        /\ launches[fetch[f].b] = "live"

\* C11: every failure of the OG fetch pipeline reaches the caller as a
\* response with success:false; no request with a valid target ends without
\* a response.
C11_EveryFailureAnswered ==
    \A f \in FetchIds :
        (fetch[f].pc = "done" /\ fetch[f].target = "valid" /\ fetch[f].result # "og")
            => (fetch[f].status # 0 /\ fetch[f].success = "false")

\* the handler of fetch f runs its synchronous first part in this step
OgStarted(f) == fetch[f].pc = "idle" /\ fetch'[f].pc # "idle"

\* C12: a request whose target is missing or does not decode to a valid URL
\* is answered 400 at once, and on that path no launch is started, no handle
\* acquired and no context created.
C12_InvalidTargetRejectedFirst ==
    /\ [](\A f \in FetchIds :
            fetch[f].target \in Targets \ {"valid"}
                => /\ fetch[f].pc = "done"
                   /\ fetch[f].status = 400
                   /\ fetch[f].b = 0
                   /\ fetch[f].ctx = 0)
    /\ [][\A f \in FetchIds :
            (OgStarted(f) /\ fetch'[f].target # "valid")
                => UNCHANGED <<browserPromise, launches, openContexts, nextCtx>>]_vars

C12_Witness ==
    \E f \in FetchIds :
        /\ fetch[f].target = "undecodable"
        /\ fetch[f].status = 400
        /\ \A n \in LaunchIds : launches[n] = "unused"

InFlightOrLive == {n \in LaunchIds : launches[n] \in {"pending", "live"}}

\* C13: at most one launch is in flight or live at any time, it is the one
\* browserPromise holds, and a getBrowser call made while it is in flight or
\* live starts no launch and gets that same handle.
C13_SingleFlight ==
    /\ [](Cardinality(InFlightOrLive) <= 1)
    /\ [](\A n \in InFlightOrLive : browserPromise = n)
    /\ [][\A f \in FetchIds :
            (OgStarted(f) /\ fetch'[f].target = "valid" /\ InFlightOrLive # {})
                => /\ fetch'[f].b \in InFlightOrLive
                   /\ launches' = launches]_vars

C13_Witness ==
    \E f, g \in FetchIds :
        /\ f # g
        /\ fetch[f].b = fetch[g].b
        /\ fetch[f].pc = "getBrowser"
        /\ fetch[g].pc \notin {"idle", "getBrowser", "done"}
        /\ launches[fetch[f].b] = "live"

\* C14: a disconnect resets browserPromise, so the next getBrowser call starts
\* a fresh launch and never hands out the dead browser; the disconnect of a
\* browser discards no handle but its own.
C14_ResetAfterDisconnect ==
    /\ [](browserPromise # 0 => launches[browserPromise] # "disconnected")
    /\ [][\A n \in LaunchIds :
            (launches[n] = "live" /\ launches'[n] = "disconnected")
                => (browserPromise = n /\ browserPromise' = 0)]_vars
    /\ [][\A f \in FetchIds :
            (OgStarted(f) /\ fetch'[f].target = "valid")
                => /\ launches[fetch'[f].b] # "disconnected"
                   /\ browserPromise = 0
                        => /\ launches[fetch'[f].b] = "unused"
                           /\ launches'[fetch'[f].b] = "pending"]_vars

C14_Witness ==
    \E f \in FetchIds, n, m \in LaunchIds :
        /\ launches[n] = "disconnected"
        /\ m # n
        /\ fetch[f].b = m
        /\ launches[m] = "live"
        /\ browserPromise = m

OgFields == {"title", "description", "image", "url", "siteName", "type"}

\* C15: a 200 answer carries title, description, image, url, siteName, type
\* and success:true at the top level; the answer to a failed extraction
\* carries an error field and success:false.
C15_FlatPayload ==
    \A f \in FetchIds :
        /\ fetch[f].status = 200
              => (fetch[f].keys = OgFields \cup {"success"} /\ fetch[f].success = "true")
        /\ fetch[f].status = 500
              => ({"error", "success"} \subseteq fetch[f].keys /\ fetch[f].success = "false")

\* the value of the first tag of the chain that holds a non-empty string
RECURSIVE FirstNonEmpty(_)
FirstNonEmpty(chain) ==
    IF chain = <<>> THEN Null
    ELSE IF Head(chain) \notin {Undefined, Null, <<>>} THEN Head(chain)
    ELSE FirstNonEmpty(Tail(chain))

\* the content of tag key, selected by property and then by name
Probe(key) == <<html[<<"property", key>>], html[<<"name", key>>]>>

Extracted == og # NoOg

\* C16: every field of the extracted object is the first non-empty value of
\* its chain, each tag probed by property before name: title from og:title,
\* twitter:title, <title>; description from og:description, description,
\* twitter:description; image from og:image, twitter:image, resolved against
\* the fetched URL; url from og:url, else the fetched URL; siteName from
\* og:site_name; type from og:type; null where the chain is empty.
C16_PriorityChains ==
    Extracted =>
        /\ og.title = FirstNonEmpty(Probe("og:title") \o Probe("twitter:title")
                                    \o <<html[TitleElement]>>)
        /\ og.description = FirstNonEmpty(Probe("og:description") \o Probe("description")
                                          \o Probe("twitter:description"))
        /\ og.image = LET c == FirstNonEmpty(Probe("og:image") \o Probe("twitter:image"))
                      IN IF c = Null THEN Null ELSE resolveUrl(url, c)
        /\ og.url = LET c == FirstNonEmpty(Probe("og:url")) IN IF c = Null THEN url ELSE c
        /\ og.siteName = FirstNonEmpty(Probe("og:site_name"))
        /\ og.type = FirstNonEmpty(Probe("og:type"))
        /\ html = EmptyHtml => og = [NoOg EXCEPT !.title = Null, !.description = Null,
                                                 !.image = Null, !.url = url,
                                                 !.siteName = Null, !.type = Null]

C16_Witness ==
    /\ Extracted
    /\ html[<<"property", "og:title">>] = TextValues[1]
    /\ html[<<"property", "twitter:title">>] = TextValues[2]
    /\ og.title = TextValues[1]
    /\ og.image = Null

\* resolveUrl has returned
Resolved == resolved # Undefined

NotAUrl == <<"n", "o", "t", " ", "a", " ", "u", "r", "l", "!", "!">>

\* C17 as stated: null for a null or empty candidate, the candidate itself
\* for "not a url!!" against "https://a.com", else an absolute URL.
C17_ResolveContract ==
    Resolved =>
        /\ relativeUrl \in {Null, <<>>} => resolved = Null
        /\ (relativeUrl = NotAUrl /\ baseUrl = <<"h", "t", "t", "p", "s", ":", "/", "/", "a",
            ".", "c", "o", "m">>)
              => resolved = relativeUrl
        /\ resolved = Null \/ resolved = relativeUrl \/ HasScheme(resolved)

\* calls of resolveUrl and what the URL standard makes of them
ResolveExamples ==
    {<<<<"h", "t", "t", "p", "s", ":", "/", "/", "a", ".", "c", "o", "m">>,
       <<"n", "o", "t", " ", "a", " ", "u", "r", "l", "!", "!">>,
       <<"h", "t", "t", "p", "s", ":", "/", "/", "a", ".", "c", "o", "m", "/", "n", "o", "t",
           "%", "2", "0", "a", "%", "2", "0", "u", "r", "l", "!", "!">>>>,
     <<<<"h", "t", "t", "p", "s", ":", "/", "/", "a", ".", "c", "o", "m">>,
       <<"h", "t", "t", "p", ":", "/", "/", "[">>,
       <<"h", "t", "t", "p", ":", "/", "/", "[">>>>,
     <<<<"h", "t", "t", "p", "s", ":", "/", "/", "a", ".", "c", "o", "m">>,
       <<"h", "t", "t", "p", "s", ":", "/", "/", "b", " ", "c", ".", "c", "o", "m", "/">>,
       <<"h", "t", "t", "p", "s", ":", "/", "/", "b", " ", "c", ".", "c", "o", "m", "/">>>>,
     <<<<"h", "t", "t", "p", "s", ":", "/", "/", "a", ".", "c", "o", "m">>,
       <<"i", "m", "g", ".", "p", "n", "g">>,
       <<"h", "t", "t", "p", "s", ":", "/", "/", "a", ".", "c", "o", "m", "/", "i", "m", "g",
           ".", "p", "n", "g">>>>,
     <<<<"h", "t", "t", "p", "s", ":", "/", "/", "a", ".", "c", "o", "m", "/", "x", "/", "y",
         "?", "k", "=", "v", "#", "f">>,
       <<"i", "m", "g", ".", "p", "n", "g">>,
       <<"h", "t", "t", "p", "s", ":", "/", "/", "a", ".", "c", "o", "m", "/", "x", "/", "i",
           "m", "g", ".", "p", "n", "g">>>>,
     <<<<"h", "t", "t", "p", "s", ":", "/", "/", "a", ".", "c", "o", "m", "/", "x", "/", "y",
         "?", "k", "=", "v", "#", "f">>,
       <<".", ".", "/", "i", ".", "p", "n", "g">>,
       <<"h", "t", "t", "p", "s", ":", "/", "/", "a", ".", "c", "o", "m", "/", "i", ".", "p",
           "n", "g">>>>,
     <<<<"h", "t", "t", "p", "s", ":", "/", "/", "a", ".", "c", "o", "m">>,
       <<"/", "/", "c", "d", "n", ".", "b", ".", "c", "o", "m", "/", "i", ".", "p", "n", "g">>,
       <<"h", "t", "t", "p", "s", ":", "/", "/", "c", "d", "n", ".", "b", ".", "c", "o", "m",
           "/", "i", ".", "p", "n", "g">>>>,
     <<<<"h", "t", "t", "p", "s", ":", "/", "/", "a", ".", "c", "o", "m">>,
       <<"h", "t", "t", "p", "s", ":", "/", "/", "B", ".", "c", "o", "m", "/", "i", ".", "p",
           "n", "g">>,
       <<"h", "t", "t", "p", "s", ":", "/", "/", "b", ".", "c", "o", "m", "/", "i", ".", "p",
           "n", "g">>>>,
     <<<<"h", "t", "t", "p", "s", ":", "/", "/", "a", ".", "c", "o", "m", "/", "x", "/", "y",
         "?", "k", "=", "v", "#", "f">>,
       <<"#", "t", "o", "p">>,
       <<"h", "t", "t", "p", "s", ":", "/", "/", "a", ".", "c", "o", "m", "/", "x", "/", "y",
           "?", "k", "=", "v", "#", "t", "o", "p">>>>,
     <<<<"a", ".", "c", "o", "m">>,
       <<"i", "m", "g", ".", "p", "n", "g">>,
       <<"i", "m", "g", ".", "p", "n", "g">>>>,
     <<<<"a", ".", "c", "o", "m">>,
       <<"h", "t", "t", "p", "s", ":", "/", "/", "B", ".", "c", "o", "m", "/", "i", ".", "p",
           "n", "g">>,
       <<"h", "t", "t", "p", "s", ":", "/", "/", "B", ".", "c", "o", "m", "/", "i", ".", "p",
           "n", "g">>>>}

\* C17: resolveUrl returns a null or empty candidate unchanged; any other
\* value it returns is the candidate itself or an absolute URL in normal form
\* (resolving it again changes nothing); text that parses as a reference
\* relative to the base is resolved, text the parser rejects and any
\* candidate under a base that is no absolute URL come back unchanged.
C17_ResolveFallback ==
    Resolved =>
        /\ relativeUrl = Null => resolved = Null
        /\ relativeUrl = <<>> => resolved = <<>>
        /\ resolved # relativeUrl
              => (HasScheme(resolved) /\ resolveUrl(baseUrl, resolved) = resolved)
        /\ ~HasScheme(Trim(baseUrl)) => resolved = relativeUrl
        /\ \A e \in ResolveExamples :
              (baseUrl = e[1] /\ relativeUrl = e[2]) => resolved = e[3]

C17_Witness ==
    /\ Resolved
    /\ relativeUrl = NotAUrl
    /\ resolved # relativeUrl
    /\ HasScheme(resolved)

\* C18: a request whose body lacks the field, or holds it with the wrong type,
\* is answered 400 at once; no handler with such a body is ever suspended at a
\* page call, and the step that answers it leaves the Map, every session
\* object (lastActivity included) and the other handlers as they were,
\* whether or not the identifier is in the Map.
C18_InvalidBodyRejectedFirst ==
    /\ [](\A r \in Slots : req[r].valid)
    /\ [](~resp.valid => resp.status = 400)
    /\ [][(resp' # NoResp /\ ~resp'.valid)
            => UNCHANGED <<browserSessions, inserted, sessions, req>>]_vars

C18_Witness ==
    /\ ~resp.valid
    /\ resp.status = 400
    /\ resp.id \in browserSessions
    /\ sessions[resp.id].lastActivity < clock
    /\ resp.id + 1 \in Ids \ browserSessions

\* In this step a handler other than create ran for a request addressed to
\* id: its first part, or its continuation after an await.
HandlerStepOn(id) ==
    \/ StartedOn(id)
    \/ \E r \in Slots : /\ req'[r] # req[r]
                        /\ req[r].op \notin {"none", "create"}
                        /\ req[r].id = id

\* C19: a step of an interaction, screenshot or close handler for session A
\* leaves the Map entry and the object (handles, createdAt, lastActivity) of
\* every other session B unchanged; and whatever is in progress on B, a
\* request for A can start on a free handler, and its page call can complete
\* while A's browser is live.
C19_SessionsIndependent ==
    /\ [][\A a, b \in Ids :
            (a # b /\ HandlerStepOn(a))
                => /\ sessions'[b] = sessions[b]
                   /\ (b \in browserSessions') = (b \in browserSessions)]_vars
    /\ [](\A r \in Slots :
            /\ (Quiet /\ req[r].pc = "idle")
                  => \A a \in Ids : ENABLED InteractStart(r, "click", a, "number")
            /\ (Quiet /\ req[r].pc = "action" /\ sessions[req[r].id].browser = "live")
                  => ENABLED ActionDone(r, TRUE))

C19_Witness ==
    \E r, q \in Slots :
        /\ req[r].pc = "title"
        /\ req[q].pc \in {"action", "closing"}
        /\ req[q].id # req[r].id
        /\ sessions[req[q].id].lastActivity < sessions[req[r].id].lastActivity

\* C20: the page action of a request for a session begins only when the page
\* action of every request received earlier for that session has completed.
C20_AppliedInOrder ==
    [][\A r \in Slots :
          (req[r].pc = "idle" /\ req'[r].pc = "action")
              => \A q \in Slots \ {r} :
                    ~(req[q].pc = "action" /\ req[q].id = req'[r].id)]_vars

Stale(id) ==
    /\ id \in browserSessions
    /\ clock - sessions[id].lastActivity > maxInactiveTime

\* C21: with the timer firing and no interaction arriving, a session whose
\* lastActivity is older than the threshold is eventually out of the Map with
\* its browser closed, also when a browser.close() of the sweep fails.
C21_StaleEventuallyDestroyed ==
    \A id \in Ids :
        Stale(id) ~> (id \notin browserSessions /\ sessions[id].browser = "closed")

\* C22: after a failed launch getBrowser is armed again: no call is handed
\* the promise of a launch that has already failed.
C22_RearmedAfterFailure ==
    [][\A f \in FetchIds :
          (OgStarted(f) /\ fetch'[f].target = "valid")
              => launches[fetch'[f].b] # "failed"]_vars

\* In this step the handler of slot r, an interaction or screenshot on id
\* that got past the lookup, ran.
InteractionStep(r, id) ==
    \/ req[r].pc = "idle" /\ req'[r].pc \in PagePcs /\ req'[r].id = id
    \/ req[r].pc \in PagePcs /\ req[r].id = id /\ req'[r] # req[r]

\* C23: when an interaction or screenshot on a session of the Map is over,
\* whether it answered 200 or its page call failed, the session's
\* lastActivity is not earlier than the moment the operation started; and a
\* step of such a handler changes no field of the entry but lastActivity.
C23_InteractionRefreshesActivity ==
    /\ [][\A r \in Slots :
            (req[r].pc \in PagePcs /\ req'[r].pc = "idle"
                /\ req[r].id \in browserSessions')
                => req[r].fresh]_vars
    /\ [][\A r \in Slots, id \in Ids :
            InteractionStep(r, id)
                => /\ sessions'[id] = [sessions[id] EXCEPT
                                          !.lastActivity = sessions'[id].lastActivity]
                   /\ (id \in browserSessions') = (id \in browserSessions)]_vars

\* the awaited calls of fetchOG between createBrowserContext and the return
CtxPcs == {"newPage", "setJs", "setIntercept", "setUA", "goto", "content",
           "pageClose", "ctxClose", "catchClose"}

\* the continuation of fetch f after the await it is suspended at
FetchStep(f) ==
    \/ FetchGotBrowser(f)
    \/ \E ok \in BOOLEAN : FetchCtxDone(f, ok)
    \/ \E ok \in BOOLEAN : FetchNewPageDone(f, ok)
    \/ \E ok \in BOOLEAN : FetchSetJsDone(f, ok)
    \/ \E ok \in BOOLEAN : FetchSetInterceptDone(f, ok)
    \/ \E ok \in BOOLEAN : FetchSetUADone(f, ok)
    \/ \E o \in GotoOutcomes : FetchGotoDone(f, o)
    \/ \E ok \in BOOLEAN : FetchContentDone(f, ok)
    \/ \E ok \in BOOLEAN : FetchPageCloseDone(f, ok)
    \/ FetchCtxCloseDone(f)
    \/ FetchCatchCloseDone(f)

\* C24: every fetchOG call that got a context got one of its own; a step of
\* one fetch (its progress, its failure, the close of its context) changes
\* neither another fetch nor whether another fetch's context is open; and a
\* fetch suspended at an engine call can always take its next step, whatever
\* the other fetches are doing (it waits only for the shared launch).
C24_FetchesIsolated ==
    /\ [](\A f, g \in FetchIds :
            (f # g /\ fetch[f].ctx # 0) => fetch[f].ctx # fetch[g].ctx)
    /\ [][\A f, g \in FetchIds :
            (f # g /\ fetch'[f] # fetch[f])
                => /\ fetch'[g] = fetch[g]
                   /\ (fetch[g].ctx \in openContexts') = (fetch[g].ctx \in openContexts)]_vars
    /\ [](\A f \in FetchIds :
            /\ fetch[f].pc \in CtxPcs \cup {"createCtx"} => ENABLED FetchStep(f)
            /\ (fetch[f].pc = "getBrowser" /\ launches[fetch[f].b] # "pending")
                   => ENABLED FetchStep(f))

\* one fetch is over and its context released while the context of the
\* other is open and in use
C24_Witness ==
    \E f, g \in FetchIds :
        /\ f # g
        /\ fetch[f].pc = "done" /\ fetch[f].ctx # 0 /\ fetch[f].ctx \notin openContexts
        /\ fetch[g].pc \in CtxPcs /\ fetch[g].ctx \in openContexts

\* C25: the Map never held an identifier twice; every entry has its browser
\* and its page (and the viewport set); while an entry is in the Map its
\* object keeps the browser and page it was inserted with (the browser only
\* goes from live to closing to closed); and a launched browser or a new page
\* is stored only into the session under construction, which is not in the
\* Map and never was.
C25_EntriesConsistent ==
    /\ [](/\ \A i, j \in DOMAIN inserted : i # j => inserted[i] # inserted[j]
          /\ browserSessions \subseteq Range(inserted)
          /\ \A id \in browserSessions :
                /\ sessions[id].browser # "none"
                /\ sessions[id].page = "open"
                /\ sessions[id].viewport)
    /\ [][\A id \in browserSessions :
            /\ sessions'[id].page = sessions[id].page
            /\ sessions'[id].createdAt = sessions[id].createdAt
            /\ sessions'[id].browser # sessions[id].browser
                  => <<sessions[id].browser, sessions'[id].browser>>
                        \in {<<"live", "closing">>, <<"closing", "closed">>}]_vars
    /\ [][\A id \in Ids :
            (\/ sessions[id].browser = "none" /\ sessions'[id].browser # "none"
             \/ sessions[id].page = "none" /\ sessions'[id].page # "none")
                => /\ id \notin Range(inserted)
                   /\ \E r \in Slots : req[r].op = "create" /\ req[r].id = id
                   /\ \A other \in Ids \ {id} : sessions'[other] = sessions[other]]_vars

\* two entries in the Map, one of them with its browser being closed
C25_Witness ==
    /\ Cardinality(browserSessions) = 2
    /\ \E id \in browserSessions : sessions[id].browser = "closing"
    /\ \E id \in browserSessions : sessions[id].browser = "live"

\* C26: every browser process that is running belongs to an entry of the Map
\* or to a create whose initialize() is still in progress: a create that
\* failed after its launch has left no process behind.
C26_NoLeakedBrowser ==
    \A id \in Ids :
        sessions[id].browser = "live"
            => \/ id \in browserSessions
               \/ \E r \in Slots : req[r].op = "create" /\ req[r].id = id

\* C27: when the process ends after a signal, the shutdown has called
\* close() on every session that is in the Map, and a gracefulShutdown that
\* has begun never stops short of ending the process, also when a close
\* fails or a sweep or DELETE is closing the same session.
C27_ShutdownClosesAll ==
    /\ shutdown.pc \in {"exited", "crashed"} => browserSessions \subseteq shutdown.called
    /\ shutdown.pc # "failed"
====
